---------------------------- MODULE Spec2Model ----------------------------
(***************************************************************************)
(* A model of the Vindriktning ESP8266 sensor node: the PM1006 frame       *)
(* decoder and conditioning pipeline of src/main.py (read_pm1006) and the  *)
(* connectivity loop of src/main.py (the outer while True); the start-up   *)
(* of src/main.py with its rotation of the offline files; the history of   *)
(* PM1006.read_adjusted in src/pm1006.py; and Handler.log of               *)
(* src/usyslog.py.                                                         *)
(*                                                                         *)
(* Python values are represented as follows.                               *)
(*   None            the empty tuple <<>>; a value v that may be None is   *)
(*                   carried as Some(v) = <<v>>                            *)
(*   bytes           a sequence of integers 0..255, 1-based                *)
(*   float           an exact rational <<n, d>>, d > 0, in lowest terms    *)
(*   list of int     a sequence of naturals                                *)
(***************************************************************************)
EXTENDS Integers, Sequences, FiniteSets, TLC

VARIABLES
    pc,             \* position of the control thread
    uart,           \* what the SoftUART delivers to the next read()
    readings,       \* return value of __sniff_pm1006_uart
    log,            \* tags of the warning/error/critical messages logged
                    \* since the start of the current cycle
    cfg,            \* the values of config.py the program reads
    ringbuf,        \* __pm1006_adjusted_ringbuf
    ringptr,        \* __pm1006_adjusted_ringptr
    last_adjusted,  \* __pm1006_last_adjusted
    last_smoothed,  \* __pm1006_last_smoothed
    reduced,        \* read_pm1006's local pm1006 after step 4 (None: no return
                    \* value was reduced in the last call)
    adjusted,       \* read_pm1006's local pm1006 after the add/mul/clamp
    filtered,       \* read_pm1006's local pm1006 after the directional filter
    hist,           \* every value stored in the ring buffer so far, oldest
                    \* first
    dots,           \* parity of the reads of the current acquisition that
                    \* returned no data (one '.' is printed per read)
    pmvt,           \* return value of the last read_pm1006 call
    cycles,         \* number of read_pm1006 calls made so far
    wlan,           \* the station interface: "idle", "connecting" or "up"
                    \* (wlan.isconnected() is wlan = "up")
    sock,           \* mqtt.sock is not None
    s,              \* the CONNECT block's s: polls of the current round
    i,              \* polls made in the current round of the CONNECT block
    polls,          \* polls made by the CONNECT block in this iteration
    ops,            \* the broker and link calls made in this iteration
    since_ok,       \* seconds since the last successful publish or ping
    offline_publishing,
    offline_h,      \* hour of the open offline log
    hour,           \* time.gmtime()[3]
    ticks,          \* hour changes so far
    files,          \* the offline log files of this run, by hour
    dat,            \* what /offline.dat holds
    flash,          \* the /off_S_HH.log files on the flash, each with the
                    \* number of the boot that created it
    offline_seq,    \* offline_seq
    boots,          \* number of start-ups so far
    used,           \* the rotation sequences of the start-ups so far
    adjbuf,         \* PM1006._adjbuf
    adjidx,         \* PM1006._adjidx
    misses,         \* number of PM1006.read_adjusted calls without a value
    ret,            \* return value of the last PM1006.read_adjusted call
    hstate,         \* Handler._state: facility, option, level, conmask
    address,        \* usyslog._address is not False
    info,           \* usyslog._info is not None
    usock,          \* usyslog._sock is not None
    build,          \* whether exception objects of this interpreter have an
                    \* attribute 'value'
    called,         \* the arguments of the last Handler.log call
    console,        \* what the last Handler.log call printed
    perr,           \* what the last Handler.log call wrote to state['perror']
    sent            \* datagrams the last Handler.log call sent

pipeVars ==
    <<uart, readings, ringbuf, ringptr, last_adjusted, last_smoothed,
      reduced, adjusted, filtered, hist, dots, pmvt>>

loopVars ==
    <<wlan, sock, s, i, polls, ops, since_ok, offline_publishing, offline_h,
      hour, ticks, files>>

bootVars == <<dat, flash, offline_seq, boots, used>>

classVars == <<adjbuf, adjidx, misses, ret>>

syslogVars ==
    <<hstate, address, info, usock, build, called, console, perr, sent>>

otherVars == <<bootVars, classVars, syslogVars>>

vars == <<pc, log, cfg, cycles, pipeVars, loopVars, otherVars>>

----------------------------------------------------------------------------
(* Optional values *)

None == <<>>

Some(v) == <<v>>

Val(o) == o[1]

----------------------------------------------------------------------------
(* Bounds of the model *)

\* number of 20-byte strides in a generated UART buffer of SpecDecode
MaxStrides == 3

\* number of frames in a generated UART buffer of SpecPipe
MaxBatch == 7

\* number of read_pm1006 calls in a behaviour of SpecPipe
MaxPipeCycles == 3

\* number of iterations of the main loop in a behaviour of Spec
MaxCycles == 3

\* number of 1-second polls the CONNECT block is followed for, per iteration
MaxPolls == 16

\* number of hour changes in a behaviour of Spec
MaxTicks == 1

\* number of read_pm1006 calls in a behaviour of SpecRing: the write index
\* of the ring buffer goes round once and starts again
MaxInserts == 242

\* number of those calls that may return None
MaxRejects == 1

----------------------------------------------------------------------------
(* Sequence helpers *)

RECURSIVE SumSeq(_)
SumSeq(q) == IF q = <<>> THEN 0 ELSE Head(q) + SumSeq(Tail(q))

RECURSIVE Concat(_)
Concat(qs) == IF qs = <<>> THEN <<>> ELSE Head(qs) \o Concat(Tail(qs))

Min2(a, b) == IF a <= b THEN a ELSE b

\* all sequences over S of length 0..n
SeqsUpTo(S, n) == UNION {[1..k -> S] : k \in 0..n}

----------------------------------------------------------------------------
(* The PM1006 frame layout and the frame decoder                           *)

FrameLen == 20

Magic0 == 22

Magic1 == 17

Magic2 == 11

\* for offset in range(0, len(data), 20): ... (the loop of
\* __sniff_pm1006_uart, with its break and its two continues).  offset is
\* the Python (0-based) offset; acc carries the list `readings` and the tags
\* of the warnings logged so far.
RECURSIVE DecodeLoopBreakOnBadMagic(_, _, _)
DecodeLoopBreakOnBadMagic(data, offset, acc) ==
    IF offset >= Len(data) THEN acc
    ELSE IF offset + FrameLen > Len(data)
         THEN [acc EXCEPT !.warn = @ \cup {"partial_frame"}]
    ELSE IF \/ data[offset + 1] # Magic0
            \/ data[offset + 2] # Magic1
            \/ data[offset + 3] # Magic2
         THEN [acc EXCEPT !.warn = @ \cup {"bad_magic"}]
    ELSE IF SumSeq(SubSeq(data, offset + 1, offset + FrameLen)) % 256 # 0
         THEN DecodeLoopBreakOnBadMagic(data, offset + FrameLen,
                         [acc EXCEPT !.warn = @ \cup {"bad_checksum"}])
    ELSE DecodeLoopBreakOnBadMagic(data, offset + FrameLen,
                    [acc EXCEPT !.vals =
                        Append(@, data[offset + 6] * 256 + data[offset + 7])])

RECURSIVE DecodeLoop(_, _, _)
DecodeLoop(data, offset, acc) ==
    IF offset >= Len(data) THEN acc
    ELSE IF offset + FrameLen > Len(data)
         THEN [acc EXCEPT !.warn = @ \cup {"partial_frame"}]
    ELSE IF \/ data[offset + 1] # Magic0
            \/ data[offset + 2] # Magic1
            \/ data[offset + 3] # Magic2
         THEN DecodeLoop(data, offset + FrameLen,
                         [acc EXCEPT !.warn = @ \cup {"bad_magic"}])
    ELSE IF SumSeq(SubSeq(data, offset + 1, offset + FrameLen)) % 256 # 0
         THEN DecodeLoop(data, offset + FrameLen,
                         [acc EXCEPT !.warn = @ \cup {"bad_checksum"}])
    ELSE DecodeLoop(data, offset + FrameLen,
                    [acc EXCEPT !.vals =
                        Append(@, data[offset + 6] * 256 + data[offset + 7])])

\* readings = [] ; for offset in ... ; return readings
DecodeFrames(data) == DecodeLoop(data, 0, [vals |-> <<>>, warn |-> {}])

\* __sniff_pm1006_uart on the outcome u of its read loop: the loop leaves
\* only with an exception (return None) or with data that is not None.
Sniffed(d) == [ret |-> Some(d.vals), log |-> d.warn]

Sniff(u) ==
    IF u.raise
    THEN [ret |-> None, log |-> {"uart_exception"}]
    ELSE Sniffed(DecodeFrames(u.data))

----------------------------------------------------------------------------
(* UART buffers the model feeds to the decoder                             *)

\* DF5..DF16 of a frame as the sensor sends it; the decoder reads none of
\* them, they only take part in the checksum
FrameFiller == <<0, 0, 3, 106, 0, 0, 0, 45, 2, 0, 0, 14>>

FrameBody(m0, m1, m2, v) ==
    <<m0, m1, m2, 0, 0, v \div 256, v % 256>> \o FrameFiller

\* a 20-byte stride carrying value v; kind says what is wrong with it
WithChecksum(body, delta) ==
    body \o << (256 - (SumSeq(body) % 256) + delta) % 256 >>

Stride(kind, v) ==
    WithChecksum(FrameBody(IF kind = "bad_magic0" THEN Magic0 + 1 ELSE Magic0,
                           IF kind = "bad_magic1" THEN Magic1 + 1 ELSE Magic1,
                           IF kind = "bad_magic2" THEN Magic2 + 1 ELSE Magic2,
                           v),
                 IF kind = "bad_checksum" THEN 1 ELSE 0)

GoodFrame(v) == Stride("ok", v)

StrideKinds == {"ok", "bad_magic0", "bad_magic1", "bad_magic2", "bad_checksum"}

\* values carried by the strides of SpecDecode: one below and one above 255
DecodeVals == {31, 300}

DecodeStrides ==
    {Stride("ok", v) : v \in DecodeVals} \cup
    {Stride(k, 31) : k \in StrideKinds \ {"ok"}}

\* lengths of the trailing remainder (a cut-off valid frame)
TailLens == {0, 10, 19}

DecodeBuffers ==
    {Concat(q) \o SubSeq(GoodFrame(300), 1, t) :
        q \in SeqsUpTo(DecodeStrides, MaxStrides), t \in TailLens}

----------------------------------------------------------------------------
(* usyslog.py: constants and the default state                             *)

\* width at which option words and masks are kept (Python integers are
\* unbounded; severities and options lie below 2^MaskBits)
MaskBits == 8

RECURSIVE BitAnd(_, _)
\* a & b for naturals
BitAnd(a, b) ==
    IF a = 0 \/ b = 0 THEN 0
    ELSE (a % 2) * (b % 2) + 2 * BitAnd(a \div 2, b \div 2)

RECURSIVE BitOr(_, _)
\* a | b for naturals
BitOr(a, b) ==
    IF a = 0 THEN b
    ELSE IF b = 0 THEN a
    ELSE (IF a % 2 = 1 \/ b % 2 = 1 THEN 1 ELSE 0)
         + 2 * BitOr(a \div 2, b \div 2)

\* ~a, kept to MaskBits bits
Invert(a) == (2 ^ MaskBits - 1) - (a % (2 ^ MaskBits))

LOG_USER == 1 * 8

LOG_CONSOLE == 14 * 8

LOG_EMERG == 0

LOG_ALERT == 1

LOG_ERR == 3

LOG_WARNING == 4

LOG_DEBUG == 7

LOG_CONS == 2

LOG_PERROR == 32

\* _state with the level Handler.__init__ adds
DefaultState ==
    [facility |-> LOG_USER, option |-> 0, level |-> LOG_WARNING,
     conmask |-> Invert(BitOr(LOG_EMERG, LOG_ALERT))]

----------------------------------------------------------------------------
(* SpecDecode: the decoder applied to every generated buffer               *)

\* the main loop's variables where the main loop does not run
LoopVarsIdle ==
    /\ wlan = "idle"
    /\ sock = FALSE
    /\ s = 0
    /\ i = 0
    /\ polls = 0
    /\ ops = <<>>
    /\ since_ok = 0
    /\ offline_publishing = FALSE
    /\ offline_h = None
    /\ hour = 0
    /\ ticks = 0
    /\ files = <<>>

\* the start-up's variables where the start-up is not followed
BootVarsIdle ==
    /\ dat = [kind |-> "missing", val |-> 0]
    /\ flash = {}
    /\ offline_seq = None
    /\ boots = 0
    /\ used = <<>>

\* the PM1006 class's variables where the class is not used
ClassVarsIdle ==
    /\ adjbuf = <<>>
    /\ adjidx = None
    /\ misses = 0
    /\ ret = None

\* the logger's variables where no message is logged
SyslogVarsIdle ==
    /\ hstate = DefaultState
    /\ address = FALSE
    /\ info = FALSE
    /\ usock = FALSE
    /\ build = TRUE
    /\ called = None
    /\ console = <<>>
    /\ perr = <<>>
    /\ sent = 0

OtherVarsIdle == BootVarsIdle /\ ClassVarsIdle /\ SyslogVarsIdle

PipeVarsIdle ==
    /\ cfg = [smoothing |-> None, add |-> None, mul |-> None, topic |-> FALSE]
    /\ ringbuf = <<>>
    /\ ringptr = None
    /\ last_adjusted = None
    /\ last_smoothed = None
    /\ reduced = None
    /\ adjusted = None
    /\ filtered = None
    /\ hist = <<>>
    /\ dots = 0
    /\ pmvt = None
    /\ cycles = 0

InitDecode ==
    /\ pc = "sniff"
    /\ uart \in {[raise |-> FALSE, data |-> d] : d \in DecodeBuffers}
                \cup {[raise |-> TRUE, data |-> <<>>]}
    /\ readings = None
    /\ log = {}
    /\ PipeVarsIdle
    /\ LoopVarsIdle
    /\ OtherVarsIdle

sniff_pm1006_uart ==
    /\ pc = "sniff"
    /\ pc' = "sniffed"
    /\ readings' = Sniff(uart).ret
    /\ log' = Sniff(uart).log
    /\ dots' = 0
    /\ UNCHANGED <<otherVars, uart, cfg, ringbuf, ringptr, last_adjusted, last_smoothed,
                   reduced, adjusted, filtered, hist, pmvt, cycles, loopVars>>

\* the read loop of __sniff_pm1006_uart when __pm1006_uart.read() returns
\* None (nothing arrived before the timeout): if data is None: continue
UartNoData ==
    /\ pc \in {"sniff", "read"}
    /\ pc = "read" => cycles < MaxCycles
    /\ dots' = 1 - dots
    /\ UNCHANGED <<otherVars, pc, log, cfg, cycles, uart, readings, ringbuf, ringptr,
                   last_adjusted, last_smoothed, reduced, adjusted, filtered,
                   hist, pmvt, loopVars>>

NextDecode == sniff_pm1006_uart \/ UartNoData

SpecDecode == InitDecode /\ [][NextDecode]_vars

\* the same with the thread always running: a read is always followed by a
\* return or by the next read
SpecAcquire == InitDecode /\ [][NextDecode]_vars /\ WF_vars(NextDecode)

----------------------------------------------------------------------------
(* Floats as exact rationals <<n, d>>                                      *)

Abs(n) == IF n < 0 THEN -n ELSE n

RECURSIVE GCD(_, _)
GCD(a, b) == IF b = 0 THEN a ELSE GCD(b, a % b)

Lowest(n, d, g) == IF d < 0 THEN <<(-n) \div g, (-d) \div g>> ELSE <<n \div g, d \div g>>

Rat(n, d) == Lowest(n, d, GCD(Abs(n), Abs(d)))

RInt(k) == <<k, 1>>

RAdd(x, y) == Rat(x[1] * y[2] + y[1] * x[2], x[2] * y[2])

RSub(x, y) == Rat(x[1] * y[2] - y[1] * x[2], x[2] * y[2])

RMul(x, y) == Rat(x[1] * y[1], x[2] * y[2])

RLess(x, y) == x[1] * y[2] < y[1] * x[2]

RZero == RInt(0)

ROne == RInt(1)

----------------------------------------------------------------------------
(* The conditioning pipeline: read_pm1006                                  *)

RingCapacity == 120

KeepLast == 6

VolatileRange == 100

\* step 1: if len(readings) > 6: readings = readings[-6:]
SelectFirst(rd) ==
    IF Len(rd) > KeepLast THEN SubSeq(rd, 1, KeepLast) ELSE rd

SelectRecent(rd) ==
    IF Len(rd) > KeepLast THEN SubSeq(rd, Len(rd) - KeepLast + 1, Len(rd)) ELSE rd

\* readings.sort()
RECURSIVE InsertSorted(_, _)
InsertSorted(x, q) ==
    IF q = <<>> THEN <<x>>
    ELSE IF x <= Head(q) THEN <<x>> \o q
    ELSE <<Head(q)>> \o InsertSorted(x, Tail(q))

RECURSIVE SortAsc(_)
SortAsc(q) == IF q = <<>> THEN <<>> ELSE InsertSorted(Head(q), SortAsc(Tail(q)))

\* step 3: if readings[-1] >= readings[0] + 100
TooVolatileStrict(rd) == rd[Len(rd)] > rd[1] + VolatileRange

TooVolatile(rd) == rd[Len(rd)] >= rd[1] + VolatileRange

\* step 4 on the sorted list rd (Python indices are 0-based): the median of
\* 3, 4, 5 or 6 values, None for fewer than 3
MedianLow(rd) ==
    IF Len(rd) >= 6 THEN Some(Rat(rd[3] + rd[4], 2))
    ELSE IF Len(rd) = 5 THEN Some(RInt(rd[3]))
    ELSE IF Len(rd) = 4 THEN Some(RInt(rd[2]))
    ELSE IF Len(rd) = 3 THEN Some(RInt(rd[2]))
    ELSE None

MedianFillsTwo(rd) ==
    IF Len(rd) >= 6 THEN Some(Rat(rd[3] + rd[4], 2))
    ELSE IF Len(rd) = 5 THEN Some(RInt(rd[3]))
    ELSE IF Len(rd) = 4 THEN Some(Rat(rd[2] + rd[3], 2))
    ELSE IF Len(rd) = 3 THEN Some(RInt(rd[2]))
    ELSE IF Len(rd) = 2 THEN Some(Rat(rd[1] + rd[2], 2))
    ELSE None

Median(rd) ==
    IF Len(rd) >= 6 THEN Some(Rat(rd[3] + rd[4], 2))
    ELSE IF Len(rd) = 5 THEN Some(RInt(rd[3]))
    ELSE IF Len(rd) = 4 THEN Some(Rat(rd[2] + rd[3], 2))
    ELSE IF Len(rd) = 3 THEN Some(RInt(rd[2]))
    ELSE None

\* if add is not None: pm1006 = pm1006 + add
\* if mul is not None: pm1006 = pm1006 * mul
\* if pm1006 < 0: pm1006 = 0.00
ClampNothing(v) == v

Clamp(v) == IF RLess(v, RZero) THEN RZero ELSE v

Scaled(v, mul) == IF mul # None THEN RMul(v, Val(mul)) ELSE v

Offset(v, add) == IF add # None THEN RAdd(v, Val(add)) ELSE v

Adjust(v, add, mul) == Clamp(Scaled(Offset(v, add), mul))

RingStoreNextSlot(buf, p, v) ==
    [buf |-> [buf EXCEPT ![((p + 1) % RingCapacity) + 1] = v], ptr |-> Some(p)]

RingInsertGrows(buf, ptr, v) == [buf |-> Append(buf, v), ptr |-> ptr]

\* the ring buffer of the latest 120 adjusted values: append while there are
\* fewer than 120, then overwrite at the advancing pointer
RingStore(buf, p, v) == [buf |-> [buf EXCEPT ![p + 1] = v], ptr |-> Some(p)]

RingInsert(buf, ptr, v) ==
    IF Len(buf) < RingCapacity
    THEN [buf |-> Append(buf, v), ptr |-> ptr]
    ELSE RingStore(buf, IF ptr = None THEN 0 ELSE (Val(ptr) + 1) % RingCapacity, v)

DirectionalFilterKeepsLower(v, last) ==
    IF last # None /\ RLess(Val(last), v)
    THEN [out |-> Val(last), last |-> last]
    ELSE [out |-> v, last |-> Some(v)]

\* step 5: report the lower of the last two adjusted values, keep the
\* current one
DirectionalFilter(v, last) ==
    IF last # None /\ RLess(Val(last), v)
    THEN [out |-> Val(last), last |-> Some(v)]
    ELSE [out |-> v, last |-> Some(v)]

SmoothSwapped(v, last, smoothing) ==
    IF last # None /\ smoothing # None
    THEN RAdd(RMul(v, Val(smoothing)),
              RMul(Val(last), RSub(ROne, Val(smoothing))))
    ELSE v

\* exponential smoothing against the previous output
Smooth(v, last, smoothing) ==
    IF last # None /\ smoothing # None
    THEN RAdd(RMul(Val(last), Val(smoothing)),
              RMul(v, RSub(ROne, Val(smoothing))))
    ELSE v

RejectedKeepsFilter(st, tags, red) ==
    [ret |-> None, reduced |-> red, adjusted |-> None, filtered |-> None,
     ringbuf |-> st.ringbuf, ringptr |-> st.ringptr,
     last_adjusted |-> st.last_adjusted, last_smoothed |-> st.last_smoothed,
     log |-> tags]

\* every path of read_pm1006 that returns None clears the filter state and
\* leaves the ring buffer alone
Rejected(st, tags, red) ==
    [ret |-> None, reduced |-> red, adjusted |-> None, filtered |-> None,
     ringbuf |-> st.ringbuf, ringptr |-> st.ringptr,
     last_adjusted |-> None, last_smoothed |-> None, log |-> tags]

\* the tail of read_pm1006 once the adjusted value adj is known: ring buffer,
\* directional filter (flt), smoothing (out), return
Publishable(st, tags, red, adj, ring, flt, out) ==
    [ret |-> Some(out), reduced |-> Some(red), adjusted |-> Some(adj),
     filtered |-> Some(flt.out), ringbuf |-> ring.buf, ringptr |-> ring.ptr,
     last_adjusted |-> flt.last, last_smoothed |-> Some(out), log |-> tags]

Filtered(st, tags, red, adj, flt, smoothing) ==
    Publishable(st, tags, red, adj, RingInsert(st.ringbuf, st.ringptr, adj),
                flt, Smooth(flt.out, st.last_smoothed, smoothing))

Reduced(st, tags, red, adj, smoothing) ==
    Filtered(st, tags, red, adj, DirectionalFilter(adj, st.last_adjusted),
             smoothing)

\* steps 3 and 4 on the selected, sorted list rd
Guarded(st, tags, rd, med, smoothing, add, mul) ==
    IF TooVolatile(rd)
    THEN Rejected(st, tags \cup {"readings_too_volatile"}, None)
    ELSE IF med = None
         THEN Rejected(st, tags \cup {"readings_missing"}, None)
    ELSE Reduced(st, tags, Val(med), Adjust(Val(med), add, mul), smoothing)

Selected(st, tags, rd, smoothing, add, mul) ==
    Guarded(st, tags, rd, Median(rd), smoothing, add, mul)

\* read_pm1006 from the return value sn of __sniff_pm1006_uart on
Conditioned(st, sn, smoothing, add, mul) ==
    IF sn.ret = None THEN Rejected(st, sn.log, None)
    ELSE IF Len(Val(sn.ret)) < 1
         THEN Rejected(st, sn.log \cup {"readings_not_found"}, None)
    ELSE Selected(st, sn.log, SortAsc(SelectRecent(Val(sn.ret))),
                  smoothing, add, mul)

\* read_pm1006(smoothing, add, mul) from the state st of its globals, sn
\* being what __sniff_pm1006_uart returned and logged
ReadPm1006(st, sn, smoothing, add, mul) ==
    Conditioned(st, sn, smoothing, add, mul)

PipeState ==
    [ringbuf |-> ringbuf, ringptr |-> ringptr,
     last_adjusted |-> last_adjusted, last_smoothed |-> last_smoothed]

----------------------------------------------------------------------------
(* SpecPipe: read_pm1006 called cycle after cycle on generated batches     *)

\* values of the frames of SpecPipe: 110 - 10 reaches the volatility range,
\* 110 - 11 stays one below it
PipeVals == {10, 11, 110}

\* distinct values between 30 and 90, in no order
ZigVal(k) == 30 + 10 * ((3 * k) % 7)

\* a batch of n >= 4 frames: the values edge and 110 at its two ends (edge
\* first, or 110 first), n - 2 distinct values in between
LongBatch(n, edge, edgeFirst) ==
    IF edgeFirst
    THEN <<edge>> \o [k \in 1..(n - 2) |-> ZigVal(k)] \o <<110>>
    ELSE <<110>> \o [k \in 1..(n - 2) |-> ZigVal(k)] \o <<edge>>

\* the batches of the examples of the specification
ExampleBatches ==
    {<<10, 20, 30>>, <<10, 20, 30, 40>>, <<0, 10, 20, 30, 40, 150>>,
     <<100, 110, 120>>}

\* every batch of up to 3 frames, the long batches up to MaxBatch frames and
\* the examples
PipeBatches ==
    SeqsUpTo(PipeVals, 3) \cup
    {LongBatch(n, e, f) : n \in 4..MaxBatch, e \in {10, 11}, f \in BOOLEAN}
    \cup ExampleBatches

BatchBuffer(b) == Concat([k \in 1..Len(b) |-> GoodFrame(b[k])])

PipeInputs ==
    {[raise |-> FALSE, data |-> BatchBuffer(b)] : b \in PipeBatches}
        \cup {[raise |-> TRUE, data |-> <<>>]}

\* a batch of three frames of value k, which read_pm1006 reduces to k
RingInput(k) == [raise |-> FALSE, data |-> BatchBuffer(<<k, k, k>>)]

RingInputs == {RingInput(k) : k \in 1..(MaxInserts + 1)}

\* the UART outcomes of the main loop's model: a read exception, a batch
\* that is reduced to 110.0, a batch that is too volatile
LoopInputs ==
    {[raise |-> TRUE, data |-> <<>>],
     [raise |-> FALSE, data |-> BatchBuffer(<<100, 110, 120>>)],
     [raise |-> FALSE, data |-> BatchBuffer(<<0, 10, 20, 30, 40, 150>>)]}

\* what __sniff_pm1006_uart returns and logs for each UART outcome of the
\* model
Sniffs == [u \in PipeInputs \cup LoopInputs \cup RingInputs |-> Sniff(u)]

\* config.pm1006_smoothing, config.pm1006_adjust_add, config.pm1006_adjust_mul
PipeConfigs ==
    {[smoothing |-> Some(RZero), add |-> None, mul |-> None, topic |-> FALSE],
     [smoothing |-> Some(Rat(1, 2)), add |-> Some(RInt(-20)),
      mul |-> Some(RInt(2)), topic |-> FALSE],
     [smoothing |-> Some(Rat(1, 2)), add |-> Some(RInt(0)),
      mul |-> Some(RInt(1)), topic |-> FALSE],
     [smoothing |-> None, add |-> None, mul |-> Some(RInt(-1)),
      topic |-> FALSE]}

InitPipe ==
    /\ pc = "read"
    /\ uart = [raise |-> TRUE, data |-> <<>>]
    /\ readings = None
    /\ log = {}
    /\ cfg \in PipeConfigs
    /\ ringbuf = <<>>
    /\ ringptr = None
    /\ last_adjusted = None
    /\ last_smoothed = None
    /\ reduced = None
    /\ adjusted = None
    /\ filtered = None
    /\ hist = <<>>
    /\ dots = 0
    /\ pmvt = None
    /\ cycles = 0
    /\ LoopVarsIdle
    /\ OtherVarsIdle

\* pmvt = read_pm1006(config.pm1006_smoothing, config.pm1006_adjust_add,
\*                    config.pm1006_adjust_mul) with UART outcome u
read_pm1006(u) ==
    \E r \in {ReadPm1006(PipeState, Sniffs[u], cfg.smoothing, cfg.add, cfg.mul)} :
    /\ uart' = u
    /\ readings' = Sniffs[u].ret
    /\ log' = r.log
    /\ ringbuf' = r.ringbuf
    /\ ringptr' = r.ringptr
    /\ last_adjusted' = r.last_adjusted
    /\ last_smoothed' = r.last_smoothed
    /\ reduced' = r.reduced
    /\ adjusted' = r.adjusted
    /\ filtered' = r.filtered
    /\ hist' = IF r.adjusted # None THEN Append(hist, Val(r.adjusted)) ELSE hist
    /\ dots' = 0
    /\ pmvt' = r.ret

PipeCycle ==
    /\ pc = "read"
    /\ cycles < MaxPipeCycles
    /\ \E u \in PipeInputs : read_pm1006(u)
    /\ cycles' = cycles + 1
    /\ UNCHANGED <<otherVars, pc, cfg, loopVars>>

NextPipe == PipeCycle

SpecPipe == InitPipe /\ [][NextPipe]_vars

----------------------------------------------------------------------------
(* SpecRing: read_pm1006 called on batches of sequential values 1, 2, 3,   *)
(* ... until the ring buffer has gone round, a call returning None now and *)
(* then                                                                    *)

RingConfigs ==
    {[smoothing |-> Some(RZero), add |-> None, mul |-> None, topic |-> FALSE],
     [smoothing |-> None, add |-> None, mul |-> None, topic |-> FALSE]}

InitRing ==
    /\ pc = "read"
    /\ uart = [raise |-> TRUE, data |-> <<>>]
    /\ readings = None
    /\ log = {}
    /\ cfg \in RingConfigs
    /\ ringbuf = <<>>
    /\ ringptr = None
    /\ last_adjusted = None
    /\ last_smoothed = None
    /\ reduced = None
    /\ adjusted = None
    /\ filtered = None
    /\ hist = <<>>
    /\ dots = 0
    /\ pmvt = None
    /\ cycles = 0
    /\ LoopVarsIdle
    /\ OtherVarsIdle

\* pmvt = read_pm1006(...) on the next value of the sequence
RingCycle ==
    /\ pc = "read"
    /\ cycles < MaxInserts
    /\ read_pm1006(RingInput(Len(hist) + 1))
    /\ cycles' = cycles + 1
    /\ UNCHANGED <<otherVars, pc, cfg, loopVars>>

\* pmvt = read_pm1006(...) when the UART read raises
RingReject ==
    /\ pc = "read"
    /\ cycles < MaxInserts
    /\ cycles - Len(hist) < MaxRejects
    /\ read_pm1006([raise |-> TRUE, data |-> <<>>])
    /\ cycles' = cycles + 1
    /\ UNCHANGED <<otherVars, pc, cfg, loopVars>>

NextRing == RingCycle \/ RingReject

SpecRing == InitRing /\ [][NextRing]_vars

----------------------------------------------------------------------------
(* The main loop of src/main.py: one action per block, the CONNECT block   *)
(* round by round and poll by poll                                         *)

MaxBudget == 5

HoursPerDay == 24

\* an upper value for since_ok: "more than 200 seconds"
MaxSinceOk == 202

\* how long the read loop of __sniff_pm1006_uart may block before it has
\* data, in seconds
UartWaits == {0, 101}

\* '%.2f' % v, as the number of hundredths nearest to v >= 0
Hundredths(v) == (200 * v[1] + v[2]) \div (2 * v[2])

Fmt2(v) == [units |-> Hundredths(v) \div 100, cents |-> Hundredths(v) % 100]

\* a call made on the broker client or on the station interface
Op(name, ok) == [op |-> name, ok |-> ok, payload |-> None, retain |-> FALSE]

PublishOpNotRetained(v, ok) ==
    [op |-> "publish", ok |-> ok, payload |-> Some(Fmt2(v)), retain |-> FALSE]

\* mqtt.publish(config.mqtt_topic_pmvt, '%.2f' % (pmvt,), retain=True)
PublishOp(v, ok) ==
    [op |-> "publish", ok |-> ok, payload |-> Some(Fmt2(v)), retain |-> TRUE]

\* wlan.connect() on a station in state w: a station that is up may stay up
\* or start over
AfterConnect(w) == IF w = "up" THEN {"up", "connecting"} ELSE {"connecting"}

BrokerConnectFailedKeepsLink(w, discOk) ==
    [sock |-> FALSE, wlan |-> w, calls |-> <<Op("connect", FALSE)>>]

\* except Exception as e: logger.critical(...); mqtt.sock = None;
\* try: wlan.disconnect() / except: pass
BrokerConnectFailed(w, discOk) ==
    [sock |-> FALSE, wlan |-> IF discOk THEN "idle" ELSE w,
     calls |-> <<Op("connect", FALSE), Op("wlan_disconnect", discOk)>>]

SockClosedAfterOp(ok, discOk) == FALSE

\* mqtt.sock after publish or ping: the except clause runs
\* try: mqtt.disconnect() ; mqtt.sock = None / except: pass
SockAfterOp(ok, discOk) == IF ok THEN TRUE ELSE ~discOk

WlanDroppedAfterFailedOp(w, ok) == IF ok THEN w ELSE "idle"

\* the station after publish or ping: neither the call nor its except
\* clause touches wlan
WlanAfterOp(w, ok) == w

LoopConfigs ==
    {[smoothing |-> Some(RZero), add |-> Some(RInt(0)), mul |-> Some(RInt(1)),
      topic |-> t] : t \in BOOLEAN}

StartHours == {23}

Init ==
    /\ pc = "read"
    /\ log = {}
    /\ cfg \in LoopConfigs
    /\ cycles = 0
    /\ uart = [raise |-> TRUE, data |-> <<>>]
    /\ readings = None
    /\ ringbuf = <<>>
    /\ ringptr = None
    /\ last_adjusted = None
    /\ last_smoothed = None
    /\ reduced = None
    /\ adjusted = None
    /\ filtered = None
    /\ hist = <<>>
    /\ dots = 0
    /\ pmvt = None
    /\ wlan \in {"idle", "connecting", "up"}
    /\ sock = FALSE
    /\ s = 0
    /\ i = 0
    /\ polls = 0
    /\ ops = <<>>
    /\ since_ok = 0
    /\ offline_publishing \in BOOLEAN
    /\ hour \in StartHours
    /\ offline_h = IF offline_publishing THEN Some(hour) ELSE None
    /\ ticks = 0
    /\ files = IF offline_publishing THEN (hour :> <<>>) ELSE <<>>
    /\ OtherVarsIdle

\* ## READ PMVT
ReadPmvt ==
    /\ pc = "read"
    /\ cycles < MaxCycles
    /\ \E u \in LoopInputs : read_pm1006(u)
    /\ \E w \in UartWaits : since_ok' = Min2(since_ok + w, MaxSinceOk)
    /\ pc' = "connect"
    /\ cycles' = cycles + 1
    /\ ops' = <<>>
    /\ UNCHANGED <<otherVars, cfg, wlan, sock, s, i, polls, offline_publishing,
                   offline_h, hour, ticks, files>>

\* ## CONNECT: if not wlan.isconnected(): try: s = 1 ... else: logger.debug
ConnectCheck ==
    /\ pc = "connect"
    /\ IF wlan # "up"
       THEN pc' = "conn_round" /\ s' = 1
       ELSE pc' = "broker" /\ s' = s
    /\ UNCHANGED <<otherVars, log, cfg, cycles, pipeVars, wlan, sock, i, polls, ops,
                   since_ok, offline_publishing, offline_h, hour, ticks, files>>

\* the top of the inner while True: if s == 1: wlan.active(True);
\* wlan.connect(...), either of which may raise into the except clause
ConnRound ==
    /\ pc = "conn_round"
    /\ IF s = 1
       THEN \/ /\ wlan' \in AfterConnect(wlan)
               /\ ops' = Append(ops, Op("wlan_connect", TRUE))
               /\ pc' = "conn_poll"
               /\ UNCHANGED <<log, s, polls>>
            \/ /\ ops' = Append(ops, Op("wlan_connect", FALSE))
               /\ log' = log \cup {"network_exception"}
               /\ pc' = "broker"
               /\ s' = 0
               /\ polls' = 0
               /\ UNCHANGED wlan
       ELSE /\ pc' = "conn_poll"
            /\ UNCHANGED <<log, s, polls, wlan, ops>>
    /\ i' = 0
    /\ UNCHANGED <<otherVars, cfg, cycles, pipeVars, sock, since_ok, offline_publishing,
                   offline_h, hour, ticks, files>>

ConnPollGivesUp ==
    /\ pc = "conn_poll"
    /\ polls < MaxPolls
    /\ IF wlan = "up"
       THEN pc' = "conn_settle" /\ polls' = polls + 1 /\ UNCHANGED <<s, i>>
       ELSE IF i + 1 < s
            THEN pc' = "conn_poll" /\ polls' = polls + 1 /\ i' = i + 1 /\ UNCHANGED s
            ELSE pc' = "broker" /\ polls' = 0 /\ i' = 0 /\ s' = (s % MaxBudget) + 1
    /\ UNCHANGED <<otherVars, log, cfg, cycles, pipeVars, wlan, sock, ops, since_ok,
                   offline_publishing, offline_h, hour, ticks, files>>

ConnPollNoWrap ==
    /\ pc = "conn_poll"
    /\ polls < MaxPolls
    /\ polls' = polls + 1
    /\ IF wlan = "up"
       THEN pc' = "conn_settle" /\ UNCHANGED <<s, i>>
       ELSE IF i + 1 < s
            THEN pc' = "conn_poll" /\ i' = i + 1 /\ UNCHANGED s
            ELSE pc' = "conn_round" /\ i' = 0 /\ s' = Min2(s + 1, MaxBudget)
    /\ UNCHANGED <<otherVars, log, cfg, cycles, pipeVars, wlan, sock, ops, since_ok,
                   offline_publishing, offline_h, hour, ticks, files>>

\* one pass of for i in range(0, s): time.sleep(1); if wlan.isconnected():
\* i = True; break -- and, after the last pass of a round, if i is True:
\* break / s = (s % 5) + 1
ConnPoll ==
    /\ pc = "conn_poll"
    /\ polls < MaxPolls
    /\ polls' = polls + 1
    /\ IF wlan = "up"
       THEN pc' = "conn_settle" /\ UNCHANGED <<s, i>>
       ELSE IF i + 1 < s
            THEN pc' = "conn_poll" /\ i' = i + 1 /\ UNCHANGED s
            ELSE pc' = "conn_round" /\ i' = 0 /\ s' = (s % MaxBudget) + 1
    /\ UNCHANGED <<otherVars, log, cfg, cycles, pipeVars, wlan, sock, ops, since_ok,
                   offline_publishing, offline_h, hour, ticks, files>>

\* logger.info('Connected to network ...'); time.sleep(5); del i, s
ConnSettle ==
    /\ pc = "conn_settle"
    /\ pc' = "broker"
    /\ s' = 0
    /\ i' = 0
    /\ polls' = 0
    /\ UNCHANGED <<otherVars, log, cfg, cycles, pipeVars, wlan, sock, ops, since_ok,
                   offline_publishing, offline_h, hour, ticks, files>>

BrokerBranchIgnoresLink(w, sk) == IF ~sk THEN "connect" ELSE "keep"

\* which arm of if not wlan.isconnected(): ... elif mqtt.sock is None: ...
\* else: ... is taken
BrokerBranch(w, sk) ==
    IF w # "up" THEN "ignore" ELSE IF ~sk THEN "connect" ELSE "keep"

\* if not wlan.isconnected(): warning / elif mqtt.sock is None: try:
\* mqtt.connect() except ... / else: debug
Broker ==
    /\ pc = "broker"
    /\ pc' = "publish"
    /\ IF BrokerBranch(wlan, sock) = "ignore"
       THEN /\ log' = log \cup {"ignoring_broker"}
            /\ UNCHANGED <<wlan, sock, ops>>
       ELSE IF BrokerBranch(wlan, sock) = "connect"
       THEN \/ /\ sock' = TRUE
               /\ ops' = Append(ops, Op("connect", TRUE))
               /\ UNCHANGED <<wlan, log>>
            \/ \E discOk \in BOOLEAN :
               \E r \in {BrokerConnectFailed(wlan, discOk)} :
                  /\ sock' = r.sock
                  /\ wlan' = r.wlan
                  /\ ops' = ops \o r.calls
                  /\ log' = log \cup {"broker_exception"}
       ELSE UNCHANGED <<wlan, sock, ops, log>>
    /\ UNCHANGED <<otherVars, cfg, cycles, pipeVars, s, i, polls, since_ok,
                   offline_publishing, offline_h, hour, ticks, files>>

\* ## PUBLISH: publish the reading, or ping when there is none
Publish ==
    /\ pc = "publish"
    /\ pc' = "offline"
    /\ IF wlan = "up" /\ sock /\ cfg.topic
       THEN \E ok \in BOOLEAN : \E discOk \in (IF ok THEN {TRUE} ELSE BOOLEAN) :
              /\ ops' = ops
                   \o << IF pmvt # None THEN PublishOp(Val(pmvt), ok)
                                        ELSE Op("ping", ok) >>
                   \o (IF ok THEN <<>> ELSE <<Op("disconnect", discOk)>>)
              /\ log' = IF ok THEN log
                        ELSE log \cup {IF pmvt # None THEN "publish_exception"
                                                      ELSE "ping_exception"}
              /\ sock' = SockAfterOp(ok, discOk)
              /\ wlan' = WlanAfterOp(wlan, ok)
              /\ since_ok' = IF ok THEN 0 ELSE since_ok
       ELSE UNCHANGED <<ops, log, sock, wlan, since_ok>>
    /\ UNCHANGED <<otherVars, cfg, cycles, pipeVars, s, i, polls, offline_publishing,
                   offline_h, hour, ticks, files>>

\* the offline log after open(offline_fn, 'w') for hour h
Opened(fs, h) == (h :> <<>>) @@ fs

\* offline_log.write('%02d:%02d:%02d\tPMVT\t%.2f\n' % (t[3], t[4], t[5], pmvt))
Written(fs, h, v) == [fs EXCEPT ![h] = Append(@, [h |-> h, value |-> Fmt2(v)])]

\* if not wlan.isconnected() and offline_publishing: try: ... except: the
\* except clause formats type(e).__name__ with no e bound (every
\* "except Exception as e" unbinds e when it ends), so any failure inside
\* the try, '%.2f' % None included, leaves the loop with a NameError
Offline ==
    /\ pc = "offline"
    /\ IF wlan # "up" /\ offline_publishing
       THEN /\ offline_h' = Some(hour)
            /\ \/ /\ offline_h # Some(hour)
                  /\ files' = files
                  /\ pc' = "crashed"
               \/ /\ pmvt # None
                  /\ files' = Written(IF offline_h # Some(hour)
                                      THEN Opened(files, hour) ELSE files,
                                      hour, Val(pmvt))
                  /\ pc' = "leds"
               \/ /\ files' = IF offline_h # Some(hour)
                              THEN Opened(files, hour) ELSE files
                  /\ pc' = "crashed"
       ELSE /\ pc' = "leds"
            /\ UNCHANGED <<offline_h, files>>
    /\ UNCHANGED <<otherVars, log, cfg, cycles, pipeVars, wlan, sock, s, i, polls, ops,
                   since_ok, offline_publishing, hour, ticks>>

\* # LEDs: if len(__pm1006_adjusted_ringbuf): logger.debug(average); the end
\* of the iteration
Leds ==
    /\ pc = "leds"
    /\ pc' = "read"
    /\ UNCHANGED <<otherVars, log, cfg, cycles, pipeVars, loopVars>>

\* the station gets its link
LinkUp ==
    /\ pc # "crashed"
    /\ wlan = "connecting"
    /\ wlan' = "up"
    /\ UNCHANGED <<otherVars, pc, log, cfg, cycles, pipeVars, sock, s, i, polls, ops,
                   since_ok, offline_publishing, offline_h, hour, ticks, files>>

\* the station loses its link and starts over
LinkLost ==
    /\ pc # "crashed"
    /\ wlan = "up"
    /\ wlan' = "connecting"
    /\ UNCHANGED <<otherVars, pc, log, cfg, cycles, pipeVars, sock, s, i, polls, ops,
                   since_ok, offline_publishing, offline_h, hour, ticks, files>>

\* the clock reaches the next hour
HourTick ==
    /\ pc # "crashed"
    /\ ticks < MaxTicks
    /\ hour' = (hour + 1) % HoursPerDay
    /\ ticks' = ticks + 1
    /\ UNCHANGED <<otherVars, pc, log, cfg, cycles, pipeVars, wlan, sock, s, i, polls,
                   ops, since_ok, offline_publishing, offline_h, files>>

Next ==
    \/ ReadPmvt
    \/ UartNoData
    \/ ConnectCheck
    \/ ConnRound
    \/ ConnPoll
    \/ ConnSettle
    \/ Broker
    \/ Publish
    \/ Offline
    \/ Leds
    \/ LinkUp
    \/ LinkLost
    \/ HourTick

Spec == Init /\ [][Next]_vars

----------------------------------------------------------------------------
(* C2: the decoder returns exactly the big-endian values of the full       *)
(* strides with good magic and checksum, in order                          *)

FullStrides(data) ==
    [k \in 1..(Len(data) \div 20) |-> SubSeq(data, 20 * (k - 1) + 1, 20 * k)]

StrideValid(f) ==
    /\ f[1] = 22 /\ f[2] = 17 /\ f[3] = 11
    /\ SumSeq(f) % 256 = 0

RECURSIVE ValidValues(_)
ValidValues(fs) ==
    IF fs = <<>> THEN <<>>
    ELSE (IF StrideValid(Head(fs)) THEN <<Head(fs)[6] * 256 + Head(fs)[7]>>
          ELSE <<>>) \o ValidValues(Tail(fs))

\* C2: for every byte buffer the decoder returns exactly the values
\* df3*256+df4 of the full 20-byte strides at offsets 0,20,40,... that have
\* the magic 0x16,0x11,0x0B and a byte sum of 0 mod 256, in buffer order; a
\* bad stride contributes nothing and does not affect the others, and a
\* trailing remainder shorter than 20 bytes is never decoded.
C2_DecoderExact ==
    (pc = "sniffed" /\ ~uart.raise) =>
        /\ readings = Some(ValidValues(FullStrides(uart.data)))
        /\ Len(Val(readings)) <= Len(uart.data) \div 20

\* witness: a buffer with a good stride, a bad-checksum stride, a bad-magic
\* stride followed by a good one, and a 10-byte remainder has been decoded
C2_Witness ==
    /\ pc = "sniffed"
    /\ ~uart.raise
    /\ Len(uart.data) = 3 * 20 + 10
    /\ uart.data = Stride("bad_magic1", 31) \o GoodFrame(300)
                     \o Stride("bad_checksum", 31) \o SubSeq(GoodFrame(300), 1, 10)
    /\ readings = Some(<<300>>)

----------------------------------------------------------------------------
(* What the claims say of a batch, stated without the pipeline's operators *)

\* the batch decoded in the last cycle
Batch == Val(readings)

HasBatch == cycles > 0 /\ readings # None

\* the at most 6 most recent values of batch b
Retained(b) ==
    [k \in 1..Min2(Len(b), 6) |-> b[Len(b) - Min2(Len(b), 6) + k]]

SeqRange(q) == {q[k] : k \in 1..Len(q)}

SeqMax(q) == CHOOSE x \in SeqRange(q) : \A y \in SeqRange(q) : y <= x

SeqMin(q) == CHOOSE x \in SeqRange(q) : \A y \in SeqRange(q) : x <= y

Spread(b) == SeqMax(Retained(b)) - SeqMin(Retained(b))

\* the k-th smallest value of q, k = 1..Len(q)
Kth(q, k) ==
    CHOOSE v \in SeqRange(q) :
        /\ Cardinality({j \in 1..Len(q) : q[j] < v}) < k
        /\ k <= Cardinality({j \in 1..Len(q) : q[j] <= v})

\* the rational r is the mean of the integers a and b
IsMeanOf(r, a, b) == 2 * r[1] = (a + b) * r[2]

IsInt(r, a) == r[1] = a * r[2]

----------------------------------------------------------------------------
\* C7: for every batch whose retained (at most 6 most recent) values have
\* max - min >= 100 the cycle result is absent, the rejection is logged as
\* too volatile and last_adjusted and last_smoothed are cleared; a range of
\* 99 or less is not rejected by the guard.
C7_VolatilityGuard ==
    (HasBatch /\ Len(Batch) >= 1) =>
        /\ Spread(Batch) >= 100 =>
              /\ pmvt = None
              /\ "readings_too_volatile" \in log
              /\ last_adjusted = None
              /\ last_smoothed = None
        /\ Spread(Batch) <= 99 => "readings_too_volatile" \notin log
        /\ (Spread(Batch) <= 99 /\ Len(Batch) >= 3) => pmvt # None

\* witness: after a valid cycle, a 6-value batch with range exactly 100 was
\* rejected and the filter state of the valid cycle is gone
C7_Witness ==
    /\ cycles = 2
    /\ Len(ringbuf) = 1
    /\ readings = Some(LongBatch(6, 10, TRUE))
    /\ Spread(Batch) = 100
    /\ pmvt = None
    /\ last_adjusted = None
    /\ last_smoothed = None

----------------------------------------------------------------------------
\* C8: after any cycle whose result is absent, last_adjusted and
\* last_smoothed are both none, and the first valid cycle after an absent
\* one returns exactly its own adjusted value.
C8_ResetAfterAbsent ==
    [][ /\ pmvt' = None => (last_adjusted' = None /\ last_smoothed' = None)
        /\ (pmvt = None /\ pmvt' # None) => pmvt' = adjusted' ]_vars

\* witness: three cycles of which the middle one was absent; the last one
\* adjusted to more than the first one did and was yet returned unfiltered
\* and unsmoothed
C8_Witness ==
    /\ cycles = 3
    /\ Len(ringbuf) = 2
    /\ RLess(ringbuf[1], ringbuf[2])
    /\ cfg.smoothing = Some(Rat(1, 2))
    /\ pmvt = Some(ringbuf[2])
    /\ pmvt = adjusted

----------------------------------------------------------------------------
\* C9 as claimed: every batch with fewer than 3 usable values gives an
\* absent result and is reported as insufficient data, never as the
\* volatility rejection.
C9_Original ==
    (HasBatch /\ Len(Batch) < 3) =>
        /\ pmvt = None
        /\ log \cap {"readings_not_found", "readings_missing"} # {}
        /\ "readings_too_volatile" \notin log

\* C9 as amended: every batch with fewer than 3 usable values gives an
\* absent result, never a fabricated value, and leaves the ring buffer
\* alone; an empty batch is reported as 'readings not found', a batch of 1
\* or 2 values with range below 100 as 'readings missing', and a batch of 2
\* values with range 100 or more as the volatility rejection, because the
\* volatility guard runs before the count is looked at.
C9_InsufficientData ==
    (HasBatch /\ Len(Batch) < 3) =>
        /\ pmvt = None
        /\ reduced = None
        /\ adjusted = None
        /\ Len(ringbuf) <= cycles - 1
        /\ Len(Batch) = 0 => log = {"readings_not_found"}
        /\ (Len(Batch) >= 1 /\ Spread(Batch) < 100) => log = {"readings_missing"}
        /\ (Len(Batch) >= 1 /\ Spread(Batch) >= 100) =>
              log = {"readings_too_volatile"}

\* witness: a batch of the two values 11 and 110 was reported as missing
\* data after a valid cycle
C9_Witness ==
    /\ cycles = 2
    /\ Len(ringbuf) = 1
    /\ readings = Some(<<110, 11>>)
    /\ pmvt = None
    /\ log = {"readings_missing"}

----------------------------------------------------------------------------
\* C10: for every batch that passes the volatility guard the reduced value
\* comes from the ascending order of the last min(n,6) decoded values:
\* count 3 gives element 1, count 4 the mean of elements 1 and 2, count 5
\* element 2, count 6 the mean of elements 2 and 3 (elements counted from
\* 0); [10,20,30] gives 20.0 and [10,20,30,40] gives 25.0.
C10_Reduction ==
    (HasBatch /\ Len(Batch) >= 3 /\ Spread(Batch) < 100) =>
        /\ reduced # None
        /\ Len(Retained(Batch)) = 3 =>
              IsInt(Val(reduced), Kth(Retained(Batch), 2))
        /\ Len(Retained(Batch)) = 4 =>
              IsMeanOf(Val(reduced), Kth(Retained(Batch), 2), Kth(Retained(Batch), 3))
        /\ Len(Retained(Batch)) = 5 =>
              IsInt(Val(reduced), Kth(Retained(Batch), 3))
        /\ Len(Retained(Batch)) = 6 =>
              IsMeanOf(Val(reduced), Kth(Retained(Batch), 3), Kth(Retained(Batch), 4))
        /\ Batch = <<10, 20, 30>> => reduced = Some(<<20, 1>>)
        /\ Batch = <<10, 20, 30, 40>> => reduced = Some(<<25, 1>>)

\* witness: a 7-value batch was reduced to the mean of the two middle values
\* of its last 6 values, 60 90 50 80 40 110, the oldest value 10 dropped
C10_Witness ==
    /\ HasBatch
    /\ Batch = LongBatch(7, 10, TRUE)
    /\ Spread(Batch) = 70
    /\ reduced = Some(<<70, 1>>)

----------------------------------------------------------------------------
(* Claims about the main loop, checked under Spec                          *)

\* C1: the main loop never terminates because of a failure: whatever the
\* sensor result, the link state, the offline storage and the failing call,
\* the failure is caught and logged and the loop goes on to the next cycle.
C1_LoopNeverTerminates == pc # "crashed"

ConnectLoop == {"conn_round", "conn_poll"}

\* the polls of one full sweep of the budgets 1, 2, 3, 4, 5
SweepPolls == (MaxBudget * (MaxBudget + 1)) \div 2

BrokerFailed == pc = "broker" /\ "broker_exception" \in log'

Connects(calls) == Cardinality({k \in DOMAIN calls : calls[k].op = "connect"})

\* C4 as stated: when a broker connect attempt fails the link is not
\* dropped, the session stays down and the failure is logged.
C4_Original == [][BrokerFailed => (wlan' = "up" /\ ~sock')]_vars

\* C4, amended: when a broker connect attempt fails the session stays down,
\* the failure is logged, the program asks the station to disconnect, which
\* takes the link down unless that call fails too, and no second broker
\* connect is attempted in the same iteration.
C4_BrokerFailure ==
    [][ /\ BrokerFailed =>
              /\ wlan = "up" /\ ~sock /\ ~sock'
              /\ pc' = "publish"
              /\ \E discOk \in BOOLEAN :
                    /\ ops' = ops \o <<Op("connect", FALSE),
                                       Op("wlan_disconnect", discOk)>>
                    /\ wlan' = IF discOk THEN "idle" ELSE "up"
        /\ Connects(ops') <= 1
      ]_vars

\* the broker connect failed and the link has been taken down
C4_Witness ==
    /\ pc = "publish"
    /\ "broker_exception" \in log
    /\ wlan = "idle"
    /\ ~sock
    /\ ops[Len(ops)] = Op("wlan_disconnect", TRUE)

OpErrors == {"publish_exception", "ping_exception"}

\* C5 as stated: whenever the session is up and more than about 100 seconds
\* have passed since the last successful publish or ping, the next advance
\* drops the session without dropping the link, even if no error occurred.
C5_Original ==
    [][(pc = "publish" /\ sock /\ since_ok > 100) =>
           (~sock' /\ wlan' = wlan)]_vars

\* C5, amended: the session is dropped only in the publish block, when the
\* publish or the ping raised (logged) and the disconnect that follows did
\* not raise; the link is left as it was, and elapsed time alone drops
\* nothing.
C5_SessionDrop ==
    [][ /\ (sock /\ ~sock') =>
              /\ pc = "publish"
              /\ log' \cap OpErrors # {}
              /\ ops'[Len(ops')] = Op("disconnect", TRUE)
              /\ wlan' = wlan
        /\ (pc = "publish" /\ sock /\ log' \cap OpErrors = {}) => sock'
      ]_vars

\* after the publish block, with publishing configured, more than 100 s
\* since the last success, the session is still up
C5_Witness ==
    /\ pc = "offline"
    /\ cfg.topic
    /\ sock
    /\ wlan = "up"
    /\ since_ok > 100

\* C6 as stated: whenever more than about 200 seconds have passed since the
\* last successful publish or ping, the link is dropped and the time of the
\* last success is reset to now.
C6_Original ==
    [][(pc = "publish" /\ wlan = "up" /\ since_ok > 200) =>
           (wlan' # "up" /\ since_ok' = 0)]_vars

\* C6, amended: the program takes the link down only when a broker connect
\* attempt has just failed, however long ago the last success was, and the
\* time since the last success restarts only at a publish or ping that
\* succeeded.
C6_LinkDrop ==
    [][ /\ (wlan # "idle" /\ wlan' = "idle") =>
              (wlan = "up" /\ BrokerFailed)
        /\ (since_ok' < since_ok) =>
              /\ pc = "publish"
              /\ since_ok' = 0
              /\ ops'[Len(ops')].op \in {"publish", "ping"}
              /\ ops'[Len(ops')].ok
      ]_vars

\* after the publish block, more than 200 s since the last success, the link
\* is still up
C6_Witness ==
    /\ pc = "offline"
    /\ wlan = "up"
    /\ since_ok > 200

----------------------------------------------------------------------------
\* the lower of the rationals x and y
RMin(x, y) == IF x[1] * y[2] <= y[1] * x[2] THEN x ELSE y

\* the cycle just made is valid and so was the one before it
ConsecutiveValid == pmvt # None /\ pmvt' # None

\* the cycle just made is valid and is the first one, or follows an absent one
FirstValid == pmvt = None /\ pmvt' # None

\* C11: over consecutive valid cycles with adjusted values a1, a2, ..., the
\* directional filter gives a1 in the first cycle and min(a(n-1), a(n)) in
\* every later one, and what it keeps for the next comparison is the current
\* adjusted value as it was before filtering, never the lower value reported.
C11_DirectionalFilter ==
    [][ /\ FirstValid => filtered' = adjusted'
        /\ ConsecutiveValid =>
              filtered' = Some(RMin(Val(adjusted), Val(adjusted')))
        /\ pmvt' # None => last_adjusted' = adjusted'
      ]_vars

\* witness: three valid cycles going up, 10, 20, 110 adjusted: the third
\* one reports the second one's value and keeps its own
C11_Witness ==
    /\ cycles = 3
    /\ hist = <<RInt(10), RInt(20), RInt(110)>>
    /\ filtered = Some(RInt(20))
    /\ last_adjusted = Some(RInt(110))

\* C12: in every valid cycle the reading returned is
\* previous_smoothed * alpha + filtered * (1 - alpha) when there is a previous
\* smoothed value and alpha is set, and the filtered value itself otherwise;
\* the reading becomes the new previous_smoothed.  Previous 10.0, filtered
\* 20.0 and alpha 0.5 give 15.0.
C12_Smoothing ==
    [][ pmvt' # None =>
          /\ (last_smoothed # None /\ cfg.smoothing # None) =>
                Val(pmvt') = RAdd(RMul(Val(last_smoothed), Val(cfg.smoothing)),
                                  RMul(Val(filtered'),
                                       RSub(ROne, Val(cfg.smoothing))))
          /\ (last_smoothed = None \/ cfg.smoothing = None) => pmvt' = filtered'
          /\ last_smoothed' = pmvt'
          /\ (last_smoothed = Some(RInt(10)) /\ filtered' = Some(RInt(20))
                /\ cfg.smoothing = Some(Rat(1, 2))) => pmvt' = Some(RInt(15))
      ]_vars

\* witness: alpha 0.5, adjusted values 10, 20, 20: the second cycle leaves
\* previous_smoothed at 10.0, the third filters to 20.0 and returns 15.0
C12_Witness ==
    /\ cycles = 3
    /\ cfg.smoothing = Some(Rat(1, 2))
    /\ hist = <<RInt(10), RInt(20), RInt(20)>>
    /\ filtered = Some(RInt(20))
    /\ pmvt = Some(RInt(15))
    /\ last_smoothed = Some(RInt(15))

----------------------------------------------------------------------------
(* Claims about the ring buffer, checked under SpecRing, where the n-th    *)
(* valid cycle adjusts to the value n                                      *)

\* the values of the sequence q at the positions lo..hi
ValuesAt(q, lo, hi) == {q[k] : k \in lo..hi}

\* the position in h of the most recent value written to slot j (from 0) of
\* a ring of 120 slots
LatestFor(h, j) == Len(h) - ((Len(h) - 1 - j) % 120)

\* buf holds the most recent min(n, 120) values of h, n = Len(h), the value
\* of the m-th insertion in slot (m - 1) % 120, and ptr is the slot written
\* last once the buffer has been full
HoldsMostRecent(buf, ptr, h) ==
    /\ Len(buf) <= 120
    /\ Len(buf) = Min2(Len(h), 120)
    /\ \A j \in 0..(Len(buf) - 1) : buf[j + 1] = h[LatestFor(h, j)]
    /\ ValuesAt(buf, 1, Len(buf)) = ValuesAt(h, Len(h) - Len(buf) + 1, Len(h))
    /\ ptr = IF Len(h) > 120 THEN Some((Len(h) - 1) % 120) ELSE None

\* C13: after any number n of valid cycles the ring buffer holds no more
\* than 120 entries and holds exactly the most recent min(n, 120) adjusted
\* values, as they were before the directional filter and the smoothing;
\* once it is full each insertion overwrites the oldest slot and the write
\* index advances modulo 120.  A cycle without a value leaves it alone.
C13_RingBuffer ==
    [][ /\ HoldsMostRecent(ringbuf', ringptr', hist')
        /\ \A k \in 1..Len(hist') : hist'[k] = RInt(k)
        /\ pmvt' # None =>
              /\ adjusted' = Some(RInt(Len(hist')))
              /\ Len(hist') = Len(hist) + 1
              /\ ringbuf'[IF Len(hist') > 120 THEN Val(ringptr') + 1
                          ELSE Len(hist')] = Val(adjusted')
        /\ (pmvt' # None /\ Len(ringbuf) = 120) =>
              /\ ringptr' = Some(IF ringptr = None THEN 0
                                 ELSE (Val(ringptr) + 1) % 120)
              /\ ringbuf[Val(ringptr') + 1] = hist[Len(hist) - 119]
              /\ ringbuf' = [ringbuf EXCEPT ![Val(ringptr') + 1] = Val(adjusted')]
        /\ pmvt' = None => UNCHANGED <<ringbuf, ringptr, hist>>
      ]_vars

\* witness: the 241st valid cycle wrote slot 0 for the second time, the
\* write index having gone from 119 back to 0, while the directional filter
\* reported 240
C13_Witness ==
    /\ Len(hist) = 241
    /\ ringptr = Some(0)
    /\ ringbuf[1] = RInt(241)
    /\ ringbuf[2] = RInt(122)
    /\ ringbuf[120] = RInt(240)
    /\ filtered = Some(RInt(240))

\* C14 as stated: 130 sequential values inserted into the empty ring buffer
\* leave exactly the last 120 values, with slot 0 holding the 11th inserted
\* value.
C14_Original ==
    Len(hist) = 130 =>
        /\ Len(ringbuf) = 120
        /\ ValuesAt(ringbuf, 1, 120) = ValuesAt(hist, 11, 130)
        /\ ringbuf[1] = hist[11]

\* C14, amended: 130 sequential values inserted into the empty ring buffer
\* leave exactly the last 120 values; the first 120 fill slots 0..119 and the
\* 121st to 130th overwrite slots 0..9, so that slot 0 holds the 121st
\* inserted value, slot 9 the 130th with the write index on it, and the
\* oldest value left, the 11th, is in slot 10.
C14_Wrap ==
    Len(hist) = 130 =>
        /\ Len(ringbuf) = 120
        /\ ValuesAt(ringbuf, 1, 120) = {RInt(k) : k \in 11..130}
        /\ \A j \in 0..9 : ringbuf[j + 1] = RInt(121 + j)
        /\ \A j \in 10..119 : ringbuf[j + 1] = RInt(j + 1)
        /\ ringptr = Some(9)

\* witness: 130 valid cycles and nothing else
C14_Witness ==
    /\ cycles = 130
    /\ Len(hist) = 130
    /\ hist[11] = RInt(11)
    /\ ringbuf[1] = RInt(121)
    /\ ringbuf[11] = RInt(11)

----------------------------------------------------------------------------
\* the calls made by the step being taken
NewOps == SubSeq(ops', Len(ops) + 1, Len(ops'))

\* the step being taken is the PUBLISH block
PublishBlock == pc = "publish" /\ pc' = "offline"

\* p is the value v >= 0 written with two decimals: the number of hundredths
\* nearest to v
TwoDecimals(p, v) ==
    /\ p.units >= 0
    /\ p.cents \in 0..99
    /\ 2 * Abs((100 * p.units + p.cents) * v[2] - 100 * v[1]) <= v[2]

\* C15: in every cycle in which the link and the session are up and a topic
\* is configured, the PUBLISH block issues exactly one publish or ping: with
\* a reading, one publish with retain set and the reading written with two
\* decimals as payload, [100,110,120] with add 0, mul 1 and alpha 0 giving
\* 110.00; without a reading, one ping and no publish.  The only other call
\* is the disconnect that follows a publish or ping that raised; with the
\* link or the session down, or no topic, the block calls nothing.
C15_PublishOrPing ==
    [][ PublishBlock =>
          IF wlan = "up" /\ sock /\ cfg.topic
          THEN /\ Len(NewOps) \in {1, 2}
               /\ NewOps[1].op = IF pmvt # None THEN "publish" ELSE "ping"
               /\ pmvt # None =>
                     /\ NewOps[1].retain
                     /\ NewOps[1].payload # None
                     /\ TwoDecimals(Val(NewOps[1].payload), Val(pmvt))
               /\ pmvt = None => NewOps[1].payload = None
               /\ Len(NewOps) = 2 =>
                     /\ ~NewOps[1].ok
                     /\ NewOps[2].op = "disconnect"
               /\ (readings = Some(<<100, 110, 120>>) /\ cfg.add = Some(RInt(0))
                     /\ cfg.mul = Some(RInt(1)) /\ cfg.smoothing = Some(RZero)) =>
                     NewOps[1] = [op |-> "publish", ok |-> NewOps[1].ok,
                                  payload |-> Some([units |-> 110, cents |-> 0]),
                                  retain |-> TRUE]
          ELSE NewOps = <<>>
      ]_vars

\* witness: the batch [100,110,120] has been published as 110.00, retained,
\* on a session that was already up when the iteration began
C15_Witness ==
    /\ pc = "offline"
    /\ cycles = 2
    /\ readings = Some(<<100, 110, 120>>)
    /\ ops = <<[op |-> "publish", ok |-> TRUE,
                payload |-> Some([units |-> 110, cents |-> 0]),
                retain |-> TRUE]>>

----------------------------------------------------------------------------
\* C16: when the UART read fails or times out, returning nothing, the
\* acquisition ends with no reading, so that the rest of the cycle runs and
\* the read is retried in the next cycle: the acquisition never blocks for
\* ever on a UART that keeps returning no data.
C16_AcquisitionEnds == (pc = "sniff") ~> (pc = "sniffed")

----------------------------------------------------------------------------
\* x times the factor m, x itself when m is not set
TimesOpt(x, m) == IF m = None THEN x ELSE RMul(x, Val(m))

\* x plus the offset a, x itself when a is not set
PlusOpt(x, a) == IF a = None THEN x ELSE RAdd(x, Val(a))

\* the greater of 0 and x
AtLeastZero(x) == IF x[1] < 0 THEN RZero ELSE x

\* C17: the adjustment stage computes max(0, reduced * mul + add): the
\* scale is applied first and the offset second, an unset mul or add being
\* the identity.
C17_MulThenAdd ==
    pmvt # None =>
        adjusted = Some(AtLeastZero(PlusOpt(TimesOpt(Val(reduced), cfg.mul),
                                            cfg.add)))

----------------------------------------------------------------------------
NonNegative(x) == x[1] >= 0 /\ x[2] > 0

\* C18: every reading the pipeline returns is non-negative, whatever the
\* batch, the configured add and mul and the smoothing coefficient in [0,1):
\* an adjusted result below zero is clamped to 0.0, and neither the
\* directional filter nor the smoothing makes a negative value out of
\* non-negative ones.
C18_NonNegative ==
    /\ cfg.smoothing # None =>
          NonNegative(Val(cfg.smoothing)) /\ RLess(Val(cfg.smoothing), ROne)
    /\ pmvt # None =>
          /\ NonNegative(Val(adjusted))
          /\ NonNegative(Val(filtered))
          /\ NonNegative(Val(pmvt))
          /\ RLess(TimesOpt(PlusOpt(Val(reduced), cfg.add), cfg.mul), RZero) =>
                adjusted = Some(RZero)
    /\ last_adjusted # None => NonNegative(Val(last_adjusted))
    /\ last_smoothed # None => NonNegative(Val(last_smoothed))
    /\ \A k \in 1..Len(ringbuf) : NonNegative(ringbuf[k])

\* witness: add -20 and mul 2; a cycle reduced to 110 and adjusted to 180,
\* then one reduced to 10, which adjusts to -20 and is clamped to 0: the
\* filter reports 0 and the smoothing returns 90
C18_Witness ==
    /\ cycles = 2
    /\ cfg.add = Some(RInt(-20))
    /\ hist = <<RInt(180), RZero>>
    /\ reduced = Some(RInt(10))
    /\ adjusted = Some(RZero)
    /\ filtered = Some(RZero)
    /\ pmvt = Some(RInt(90))

----------------------------------------------------------------------------
\* the step being taken issues wlan.active(True); wlan.connect(...)
IssuesConnect ==
    /\ Len(ops') = Len(ops) + 1
    /\ ops'[Len(ops')].op = "wlan_connect"

\* C19 as stated: the wait budget takes the values 1..5, goes up by one
\* after each failed outer cycle, 5 wrapping to 1, and the connect request
\* is issued when it is 1.  A budget that changes from one outer cycle to the
\* next stays what it is while the CONNECT block of one cycle runs.
C19_Original ==
    [][(pc \in ConnectLoop /\ pc' \in ConnectLoop) => s' = s]_vars

\* C19, amended: the wait budget takes the values 1..5 only; every outer
\* cycle that finds the link down starts it at 1, and within that cycle it
\* goes up by one after each round of polls that ends with the link still
\* down, 5 wrapping to 1; the connect request is issued exactly at the start
\* of the rounds whose budget is 1.
C19_Budget ==
    [][ /\ pc' \in ConnectLoop => s' \in 1..5
        /\ (pc = "connect" /\ pc' \in ConnectLoop) => s' = 1
        /\ (pc = "conn_poll" /\ pc' = "conn_round") =>
              /\ wlan # "up"
              /\ i = s - 1
              /\ s' = IF s = 5 THEN 1 ELSE s + 1
        /\ (pc \in ConnectLoop /\ pc' \in ConnectLoop /\ s' # s) =>
              (pc = "conn_poll" /\ pc' = "conn_round")
        /\ IssuesConnect <=> (pc = "conn_round" /\ s = 1 /\ pc' # "conn_round")
      ]_vars

\* witness: in one outer cycle the budget has gone 1, 2, 3, 4, 5 and back
\* to 1, and the connect request has been issued a second time
C19_Witness ==
    /\ pc = "conn_poll"
    /\ s = 1
    /\ i = 0
    /\ polls = 15
    /\ ops = <<Op("wlan_connect", TRUE), Op("wlan_connect", TRUE)>>

----------------------------------------------------------------------------
\* the step being taken is the offline block, entered with the link down and
\* offline storage available
OfflineBlock ==
    /\ pc = "offline"
    /\ pc' # "offline"
    /\ wlan # "up"
    /\ offline_publishing

\* the entries of the file of the current hour before this cycle's entry: a
\* file begun in this hour is continued, any other is started afresh
CurrentFile == IF offline_h = Some(hour) THEN files[hour] ELSE <<>>

\* C20: every cycle that reaches the offline step with the link down and
\* offline storage available appends one entry, time, metric and value, to
\* the file of the current hour: the entry is in the file whose hour is the
\* hour of its own timestamp, and the file changes exactly when the hour
\* does.
C20_OfflineAppend ==
    [][ OfflineBlock =>
          /\ offline_h' = Some(hour)
          /\ hour \in DOMAIN files'
          /\ Len(files'[hour]) = Len(CurrentFile) + 1
          /\ SubSeq(files'[hour], 1, Len(CurrentFile)) = CurrentFile
          /\ files'[hour][Len(files'[hour])].h = hour
          /\ pmvt # None =>
                TwoDecimals(files'[hour][Len(files'[hour])].value, Val(pmvt))
          /\ \A h \in DOMAIN files : h # hour => files'[h] = files[h]
      ]_vars

----------------------------------------------------------------------------
(* C23: the session connect and the link                                   *)

\* the step issues mqtt.connect()
IssuesBrokerConnect ==
    \E k \in DOMAIN NewOps : NewOps[k].op = "connect"

\* C23: a session connect is attempted only where the link reports connected
\* at that moment: every step that issues a broker connect is the broker
\* block of a cycle, taken with the link up and the session down, and no
\* broker connect is issued while the link is down.
C23_ConnectOnlyWhenLinked ==
    [][IssuesBrokerConnect => (pc = "broker" /\ wlan = "up" /\ ~sock)]_vars

\* a cycle in which the link was down at first, came up during the connect
\* block, and the session connect was then issued and succeeded
C23_Witness ==
    /\ pc = "publish"
    /\ wlan = "up"
    /\ sock
    /\ Len(ops) = 2
    /\ ops[1] = Op("wlan_connect", TRUE)
    /\ ops[2] = Op("connect", TRUE)

----------------------------------------------------------------------------
(* C26: the session after a failed publish or ping                         *)

\* the step issues a publish or a ping that fails
OpFails ==
    /\ PublishBlock
    /\ \E k \in DOMAIN NewOps :
         NewOps[k].op \in {"publish", "ping"} /\ ~NewOps[k].ok

\* C26: after a publish or ping failure the session is always marked down
\* before the next cycle, also when the disconnect call of the cleanup fails
\* itself.
C26_SessionMarkedDown == [][OpFails => ~sock']_vars

----------------------------------------------------------------------------
(* C28: publishing and the offline log in one cycle                        *)

\* this cycle's reading was published to the broker
PublishedThisCycle ==
    \E k \in DOMAIN ops : ops[k].op = "publish" /\ ops[k].ok

\* the step appends this cycle's reading to the offline log
AppendsOffline == OfflineBlock /\ pc' = "leds"

\* C28: a reading is never both published to the broker and appended to the
\* offline log in the same cycle, whatever the link does between the link
\* checks of that cycle.
C28_PublishedOrStored == [][AppendsOffline => ~PublishedThisCycle]_vars

----------------------------------------------------------------------------
(* SpecOffline: the offline log over more than a day without a link        *)

MaxDayTicks == 25

MaxDownCycles == 3

InitOffline ==
    /\ pc = "leds"
    /\ uart = [raise |-> TRUE, data |-> <<>>]
    /\ readings = None
    /\ log = {}
    /\ PipeVarsIdle
    /\ wlan = "idle"
    /\ sock = FALSE
    /\ s = 0
    /\ i = 0
    /\ polls = 0
    /\ ops = <<>>
    /\ since_ok = 0
    /\ offline_publishing = TRUE
    /\ hour \in StartHours
    /\ offline_h = Some(hour)
    /\ ticks = 0
    /\ files = (hour :> <<>>)
    /\ OtherVarsIdle

\* from # LEDs of one iteration to the offline step of the next, for an
\* iteration that delivers a reading and ends its connect, broker and
\* publish blocks with the link down (wlan.connect() raised, or the broker
\* connect failed and wlan.disconnect() followed); the readings are told
\* apart by the number of the iteration
DownCycle ==
    /\ pc = "leds"
    /\ cycles < MaxDownCycles
    /\ wlan # "up"
    /\ pc' = "offline"
    /\ cycles' = cycles + 1
    /\ pmvt' = Some(RInt(cycles + 1))
    /\ UNCHANGED <<otherVars, log, cfg, uart, readings, ringbuf, ringptr,
                   last_adjusted, last_smoothed, reduced, adjusted, filtered,
                   hist, dots, loopVars>>

\* the clock reaches the next hour, for longer than a day
DayTick ==
    /\ pc # "crashed"
    /\ ticks < MaxDayTicks
    /\ hour' = (hour + 1) % HoursPerDay
    /\ ticks' = ticks + 1
    /\ UNCHANGED <<otherVars, pc, log, cfg, cycles, pipeVars, wlan, sock, s, i,
                   polls, ops, since_ok, offline_publishing, offline_h, files>>

NextOffline ==
    \/ DownCycle
    \/ Offline
    \/ DayTick

SpecOffline == InitOffline /\ [][NextOffline]_vars

----------------------------------------------------------------------------
(* C21: the offline log within one run                                     *)

\* a is an initial part of b
IsPrefix(a, b) == Len(a) <= Len(b) /\ SubSeq(b, 1, Len(a)) = a

\* C21: the offline log is append-only within one run: no offline write and
\* no hour rollover discards an entry written earlier in the run, also when
\* the same hour of the day comes round again after 24 hours -- every file
\* of the run is still there after every step, beginning with the entries
\* it held before.
C21_AppendOnly ==
    [][\A h \in DOMAIN files :
          h \in DOMAIN files' /\ IsPrefix(files[h], files'[h])]_vars

----------------------------------------------------------------------------
(* SpecBoot: the start-up's rotation of the offline files over restarts    *)

MaxBoots == 11

\* the number of rotation sequences
SeqCount == 10

\* /offline.dat holding the integer c, holding no integer, or missing
DatInt(c) == [kind |-> "int", val |-> c]

DatCorrupt == [kind |-> "corrupt", val |-> 0]

DatMissing == [kind |-> "missing", val |-> 0]

\* the file '/off_%01d_%02d.log' % (q, h), created in start-up number b
OffFile(q, h, b) == [seq |-> q, h |-> h, boot |-> b]

NextSeqKeeps(c) == c % SeqCount

\* offline_seq = (offline_seq+1) % 10
NextSeq(c) == (c + 1) % SeqCount

RemovedFromHourOne(fl, q) ==
    {f \in fl : ~(f.seq = q /\ f.h \in 1..(HoursPerDay - 1))}

\* for offline_h in range(0,24): os.remove('/off_%01d_%02d.log' % ...)
Removed(fl, q) == {f \in fl : ~(f.seq = q /\ f.h \in 0..(HoursPerDay - 1))}

\* open('/off_%01d_%02d.log' % (q, h), 'w') in start-up number b: the file is
\* created, or emptied when it is there already
Created(fl, q, h, b) ==
    {f \in fl : ~(f.seq = q /\ f.h = h)} \cup {OffFile(q, h, b)}

\* the try statement of the start-up: the counter read and advanced and the
\* files of the new sequence removed; no counter to read (ValueError) and
\* every off_*.log removed; or no file (OSError) and no offline publishing
Rotated(d, fl) ==
    IF d.kind = "int"
    THEN [publishing |-> TRUE, seq |-> Some(NextSeq(d.val)),
          flash |-> Removed(fl, NextSeq(d.val))]
    ELSE IF d.kind = "corrupt"
    THEN [publishing |-> TRUE, seq |-> Some(0), flash |-> {}]
    ELSE [publishing |-> FALSE, seq |-> None, flash |-> fl]

BootCounters == {DatInt(c) : c \in {-1, 0, 3, 9, 42}} \cup {DatCorrupt, DatMissing}

\* what earlier runs may have left on the flash
BootFlash == {{}, {OffFile(0, 5, 0), OffFile(4, 0, 0), OffFile(4, 23, 0),
                   OffFile(5, 23, 0)}}

\* the hour in which a run writes offline entries after the hour of its
\* start-up
RunHours == {0}

InitBoot ==
    /\ pc = "boot"
    /\ uart = [raise |-> TRUE, data |-> <<>>]
    /\ readings = None
    /\ log = {}
    /\ PipeVarsIdle
    /\ wlan = "idle"
    /\ sock = FALSE
    /\ s = 0
    /\ i = 0
    /\ polls = 0
    /\ ops = <<>>
    /\ since_ok = 0
    /\ offline_publishing = FALSE
    /\ hour \in StartHours
    /\ offline_h = None
    /\ ticks = 0
    /\ files = <<>>
    /\ dat \in BootCounters
    /\ flash \in BootFlash
    /\ offline_seq = None
    /\ boots = 0
    /\ used = <<>>
    /\ ClassVarsIdle
    /\ SyslogVarsIdle

\* the start-up: the rotation, then if offline_publishing: the counter
\* written back and the file of the current hour opened
Startup ==
    /\ pc = "boot"
    /\ pc' = "run"
    /\ boots' = boots + 1
    /\ \E r \in {Rotated(dat, flash)} :
         /\ offline_publishing' = r.publishing
         /\ offline_seq' = r.seq
         /\ used' = Append(used, r.seq)
         /\ IF r.publishing
            THEN /\ dat' = DatInt(Val(r.seq))
                 /\ offline_h' = Some(hour)
                 /\ flash' = Created(r.flash, Val(r.seq), hour, boots + 1)
                 /\ files' = (hour :> <<>>)
            ELSE /\ dat' = dat
                 /\ offline_h' = None
                 /\ flash' = r.flash
                 /\ files' = <<>>
    /\ UNCHANGED <<classVars, syslogVars, log, cfg, cycles, pipeVars, wlan,
                   sock, s, i, polls, ops, since_ok, hour, ticks>>

\* the run's offline writes in a later hour, as far as the files on the flash
\* go: offline_log = open(offline_fn, 'w') creates the file of that hour
RunWrite ==
    /\ pc = "run"
    /\ offline_publishing
    /\ \E h \in RunHours :
         /\ OffFile(Val(offline_seq), h, boots) \notin flash
         /\ flash' = Created(flash, Val(offline_seq), h, boots)
         /\ hour' = h
         /\ offline_h' = Some(h)
         /\ files' = (h :> <<>>) @@ files
    /\ UNCHANGED <<dat, offline_seq, boots, used, classVars, syslogVars, pc,
                   log, cfg, cycles, pipeVars, wlan, sock, s, i, polls, ops,
                   since_ok, offline_publishing, ticks>>

\* the device is restarted: the module's variables are gone, the flash stays
Restart ==
    /\ pc = "run"
    /\ boots < MaxBoots
    /\ pc' = "boot"
    /\ hour' \in StartHours
    /\ offline_publishing' = FALSE
    /\ offline_seq' = None
    /\ offline_h' = None
    /\ files' = <<>>
    /\ UNCHANGED <<dat, flash, boots, used, classVars, syslogVars, log, cfg,
                   cycles, pipeVars, wlan, sock, s, i, polls, ops, since_ok,
                   ticks>>

NextBoot ==
    \/ Startup
    \/ RunWrite
    \/ Restart

SpecBoot == InitBoot /\ [][NextBoot]_vars

----------------------------------------------------------------------------
(* C22: the rotation of the offline files                                  *)

\* the step is a start-up
StartsUp == pc = "boot" /\ pc' = "run"

\* the sequences of the last n start-ups
LastUsed(n) == {used'[k] : k \in (Len(used') - n + 1)..Len(used')}

\* C22: at every start-up with a readable counter c the sequence becomes
\* (c+1) mod 10 and is written back as the new counter, and no file of that
\* sequence from an earlier run is left when the run begins (the only file
\* of the sequence is the one the start-up has just opened); the last 10
\* start-ups used each sequence 0..9 exactly once; and a start-up with a
\* corrupt counter takes sequence 0 and leaves no offline file but the one it
\* opens.
C22_Rotation ==
    [][StartsUp =>
        /\ dat.kind = "int" =>
              /\ offline_seq' = Some((dat.val + 1) % 10)
              /\ dat' = DatInt((dat.val + 1) % 10)
              /\ \A f \in flash' :
                    f.seq = (dat.val + 1) % 10 => (f.h = hour /\ f.boot = boots')
              /\ \A f \in flash : f.seq # (dat.val + 1) % 10 => f \in flash'
        /\ (dat.kind # "missing" /\ Len(used') >= 10) =>
              /\ LastUsed(10) = {Some(q) : q \in 0..9}
        /\ dat.kind = "corrupt" =>
              /\ offline_seq' = Some(0)
              /\ dat' = DatInt(0)
              /\ flash' = {OffFile(0, hour, boots')}]_vars

\* the eleventh start-up in a row: the counter was 3 at first, so the run
\* uses sequence 4 for the second time; the files sequence 4 left ten
\* start-ups ago are gone, those of the other sequences are kept
C22_Witness ==
    /\ pc = "run"
    /\ boots = 11
    /\ offline_seq = Some(4)
    /\ dat = DatInt(4)
    /\ used[1] = Some(4)
    /\ OffFile(5, 0, 2) \in flash
    /\ OffFile(0, 5, 0) \notin flash
    /\ {f \in flash : f.seq = 4} = {OffFile(4, 23, 11)}

----------------------------------------------------------------------------
(* SpecClass: PM1006.read_adjusted called cycle after cycle                *)

MaxClassCycles == 123

MaxMisses == 1

\* the length of PM1006._adjbuf when full
AdjCapacity == 120

\* adjusted *= self._adjust_mul; adjusted += self._adjust_add;
\* if adjusted < 0: adjusted = 0.0
ClassAdjust(v, mul, add) ==
    LET m == IF mul # None THEN RMul(v, Val(mul)) ELSE v
        a == IF add # None THEN RAdd(m, Val(add)) ELSE m
    IN  IF RLess(a, RZero) THEN RZero ELSE a

\* the branch for a value: append while fewer than 120 are held, then
\* overwrite slot 0, 1, 2, ...
ClassStore(buf, idx, v) ==
    IF Len(buf) < AdjCapacity
    THEN [buf |-> Append(buf, v), idx |-> idx, raised |-> FALSE]
    ELSE IF idx = None
    THEN [buf |-> [buf EXCEPT ![1] = v], idx |-> Some(0), raised |-> FALSE]
    ELSE [buf |-> [buf EXCEPT ![((Val(idx) + 1) % AdjCapacity) + 1] = v],
          idx |-> Some((Val(idx) + 1) % AdjCapacity), raised |-> FALSE]

\* the branch for no value: nothing while the history is empty,
\* self._adjbuf[-1] appended while fewer than 120 are held, then
\* self._adjbuf[self._adjidx] copied to the next slot -- which is a TypeError
\* while self._adjidx is still None
ClassSubstitute(buf, idx) ==
    IF Len(buf) = 0
    THEN [buf |-> buf, idx |-> idx, raised |-> FALSE]
    ELSE IF Len(buf) < AdjCapacity
    THEN [buf |-> Append(buf, buf[Len(buf)]), idx |-> idx, raised |-> FALSE]
    ELSE IF idx = None
    THEN [buf |-> buf, idx |-> idx, raised |-> TRUE]
    ELSE [buf |-> [buf EXCEPT ![((Val(idx) + 1) % AdjCapacity) + 1] =
                                  buf[Val(idx) + 1]],
          idx |-> Some((Val(idx) + 1) % AdjCapacity), raised |-> FALSE]

\* set_adjust(mul, add)
ClassConfigs ==
    {[smoothing |-> None, add |-> Some(RInt(-4)), mul |-> Some(RInt(2)),
      topic |-> FALSE]}

InitClass ==
    /\ pc = "class"
    /\ uart = [raise |-> TRUE, data |-> <<>>]
    /\ readings = None
    /\ log = {}
    /\ cfg \in ClassConfigs
    /\ ringbuf = <<>>
    /\ ringptr = None
    /\ last_adjusted = None
    /\ last_smoothed = None
    /\ reduced = None
    /\ adjusted = None
    /\ filtered = None
    /\ hist = <<>>
    /\ dots = 0
    /\ pmvt = None
    /\ cycles = 0
    /\ LoopVarsIdle
    /\ BootVarsIdle
    /\ ClassVarsIdle
    /\ SyslogVarsIdle

\* PM1006.read_adjusted() where self.read_one() returns r
read_adjusted(r) ==
    /\ pc = "class"
    /\ cycles < MaxClassCycles
    /\ cycles' = cycles + 1
    /\ \E n \in {IF r # None
                  THEN ClassStore(adjbuf, adjidx,
                                  ClassAdjust(Val(r), cfg.mul, cfg.add))
                  ELSE ClassSubstitute(adjbuf, adjidx)} :
         /\ adjbuf' = n.buf
         /\ adjidx' = n.idx
         /\ pc' = IF n.raised THEN "raised" ELSE "class"
         /\ ret' = IF n.raised \/ r = None THEN None
                   ELSE Some(ClassAdjust(Val(r), cfg.mul, cfg.add))
    /\ UNCHANGED <<bootVars, syslogVars, log, cfg, pipeVars, loopVars>>

\* a cycle in which read_one() returns a value; the values are told apart by
\* the number of the cycle
ClassCycle ==
    /\ read_adjusted(Some(RInt(cycles + 1)))
    /\ misses' = misses

\* a cycle in which read_one() returns None
ClassMiss ==
    /\ misses < MaxMisses
    /\ read_adjusted(None)
    /\ misses' = misses + 1

NextClass ==
    \/ ClassCycle
    \/ ClassMiss

SpecClass == InitClass /\ [][NextClass]_vars

----------------------------------------------------------------------------
(* C27: read_adjusted on a cycle without data                              *)

\* the value stored last
Newest(buf, idx) ==
    IF Len(buf) < AdjCapacity \/ idx = None
    THEN buf[Len(buf)] ELSE buf[Val(idx) + 1]

\* the step is a call of read_adjusted on a cycle without data
MissStep == pc = "class" /\ misses' = misses + 1

\* C27: read_adjusted never raises on a cycle without data: whatever the
\* length of the history (empty, 1..119, exactly 120 just reached, 120 after
\* wrap-around) it returns absent, and when the history is not empty the
\* value stored last is stored again as the newest slot, the history
\* advancing by one slot.
C27_LastKnownGood ==
    [][MissStep =>
        /\ pc' # "raised"
        /\ ret' = None
        /\ Len(adjbuf) = 0 => (adjbuf' = adjbuf /\ adjidx' = adjidx)
        /\ Len(adjbuf) > 0 =>
              /\ Newest(adjbuf', adjidx') = Newest(adjbuf, adjidx)
              /\ Len(adjbuf) < AdjCapacity => Len(adjbuf') = Len(adjbuf) + 1
              /\ Len(adjbuf) = AdjCapacity => adjidx' # adjidx]_vars

----------------------------------------------------------------------------
(* SpecLog: Handler.log on a handler of usyslog.py                         *)

MaxLogCalls == 2

\* a line of output: the message of the call with its severity prefix, or
\* the report of _internal_exception_log
MsgLine(severity) == [kind |-> "msg", severity |-> severity]

InternalLine(where) == [kind |-> "internal", severity |-> LOG_ERR]

\* what one call has done so far
Outcome(inf, sk) ==
    [console |-> <<>>, perr |-> <<>>, sent |-> 0, info |-> inf, sock |-> sk,
     raised |-> FALSE, done |-> FALSE]

\* _internal_exception_log(option, e, msg): with LOG_CONS the report is
\* printed, and it is built from e.value, which an interpreter whose
\* exception objects have no attribute 'value' answers with AttributeError
InternalExceptionLog(o, option, bld, where) ==
    IF BitAnd(option, LOG_CONS) = 0 THEN o
    ELSE IF bld THEN [o EXCEPT !.console = Append(@, InternalLine(where))]
    ELSE [o EXCEPT !.raised = TRUE, !.done = TRUE]

\* the call has returned
Returned(o) == [o EXCEPT !.done = TRUE]

\* if option & LOG_PERROR: try: perror.write(...) except Exception as e: ...
PerrorStage(o, st, bld, severity, fails) ==
    IF BitAnd(st.option, LOG_PERROR) = 0 THEN o
    ELSE IF fails.perror
    THEN InternalExceptionLog(o, st.option, bld, "perror.write")
    ELSE [o EXCEPT !.perr = Append(@, MsgLine(severity))]

ConsoleWantedMaskOnly(facility, severity, conmask) ==
    BitAnd(severity, conmask) = 0

\* facility == LOG_CONSOLE or (severity & conmask == 0)
ConsoleWanted(facility, severity, conmask) ==
    facility = LOG_CONSOLE \/ BitAnd(severity, conmask) = 0

\* if facility == LOG_CONSOLE or (severity & conmask == 0): print(...)
ConsoleStage(o, st, severity) ==
    IF o.done THEN o
    ELSE IF ConsoleWanted(st.facility, severity, st.conmask)
    THEN [o EXCEPT !.console = Append(@, MsgLine(severity))]
    ELSE o

\* if facility == LOG_CONSOLE or _address is False: return
LocalStage(o, st, addr) ==
    IF o.done THEN o
    ELSE IF st.facility = LOG_CONSOLE \/ ~addr THEN Returned(o)
    ELSE o

\* if _info is None: try: _info = usocket.getaddrinfo(...) except ...: return
ResolveStage(o, st, bld, fails) ==
    IF o.done \/ o.info THEN o
    ELSE IF fails.getaddrinfo
    THEN Returned(InternalExceptionLog(o, st.option, bld, "getaddrinfo"))
    ELSE [o EXCEPT !.info = TRUE]

\* if _sock is None: try: _sock = usocket.socket(...) except ...: return
SocketStage(o, st, bld, fails) ==
    IF o.done \/ o.sock THEN o
    ELSE IF fails.socket
    THEN Returned(InternalExceptionLog(o, st.option, bld, "socket"))
    ELSE [o EXCEPT !.sock = TRUE]

\* the socket after a failed sendto: closed and forgotten, unless the report
\* raised before that
Forgotten(o) == IF o.raised THEN o ELSE [o EXCEPT !.sock = FALSE]

\* try: _sock.sendto(data, _info) except Exception as e: ...; _sock = None
SendStage(o, st, bld, fails) ==
    IF o.done THEN o
    ELSE IF fails.sendto
    THEN Returned(Forgotten(InternalExceptionLog(o, st.option, bld, "sendto")))
    ELSE Returned([o EXCEPT !.sent = @ + 1])

\* _syslog4(state, 0, severity, msg)
Syslog4(st, addr, inf, sk, bld, severity, fails) ==
    SendStage(
      SocketStage(
        ResolveStage(
          LocalStage(
            ConsoleStage(
              PerrorStage(Outcome(inf, sk), st, bld, severity, fails),
              st, severity),
            st, addr),
          st, bld, fails),
        st, bld, fails),
      st, bld, fails)

\* Handler.log(level, msg): if level > self._state['level']: return
HandlerLog(st, addr, inf, sk, bld, level, fails) ==
    IF level > st.level THEN Returned(Outcome(inf, sk))
    ELSE Syslog4(st, addr, inf, sk, bld, level, fails)

\* which of the four calls that can fail do fail: the perror writer or not,
\* and the first of the network calls to fail, if any (the call returns
\* there)
Failures ==
    {f \in [perror : BOOLEAN, getaddrinfo : BOOLEAN, socket : BOOLEAN,
            sendto : BOOLEAN] :
        /\ ~(f.getaddrinfo /\ f.socket)
        /\ ~(f.getaddrinfo /\ f.sendto)
        /\ ~(f.socket /\ f.sendto)}

Severities == LOG_EMERG..LOG_DEBUG

\* Handler(address=..., facility=..., option=..., conmask=...) and setLevel
HandlerStates ==
    [facility : {LOG_USER, LOG_CONSOLE},
     option : {0, LOG_CONS, LOG_PERROR, LOG_CONS + LOG_PERROR},
     level : {LOG_EMERG, LOG_WARNING, LOG_DEBUG},
     conmask : {DefaultState.conmask, Invert(LOG_EMERG)}]

InitLog ==
    /\ pc = "log"
    /\ uart = [raise |-> TRUE, data |-> <<>>]
    /\ readings = None
    /\ log = {}
    /\ PipeVarsIdle
    /\ LoopVarsIdle
    /\ BootVarsIdle
    /\ ClassVarsIdle
    /\ hstate \in HandlerStates
    /\ address \in BOOLEAN
    /\ info = FALSE
    /\ usock = FALSE
    /\ build \in BOOLEAN
    /\ called = None
    /\ console = <<>>
    /\ perr = <<>>
    /\ sent = 0

\* one call of Handler.log
Handler_log ==
    /\ pc = "log"
    /\ cycles < MaxLogCalls
    /\ cycles' = cycles + 1
    /\ \E level \in Severities, fails \in Failures :
         \E o \in {HandlerLog(hstate, address, info, usock, build, level,
                              fails)} :
            /\ called' = Some([level |-> level, fails |-> fails])
            /\ console' = o.console
            /\ perr' = o.perr
            /\ sent' = o.sent
            /\ info' = o.info
            /\ usock' = o.sock
            /\ pc' = IF o.raised THEN "raised" ELSE "log"
    /\ UNCHANGED <<bootVars, classVars, hstate, address, build, log, cfg,
                   pipeVars, loopVars>>

NextLog == Handler_log

SpecLog == InitLog /\ [][NextLog]_vars

----------------------------------------------------------------------------
(* C24: a log call and its caller                                          *)

\* C24: a log call never raises on the caller: for every severity, every
\* failure of address resolution, socket creation, send or the perror
\* writer, and every option setting, the call returns normally.
C24_NeverRaises == pc # "raised"

----------------------------------------------------------------------------
(* C25: what reaches the console                                           *)

\* the last call printed its message
MsgPrinted ==
    \E k \in DOMAIN console : console[k] = MsgLine(Val(called).level)

\* the last call was made on a handler with the default console mask
DefaultMaskCall == called # None /\ hstate.conmask = DefaultState.conmask

\* the message of the last call is more severe than ALERT allows
Urgent == Val(called).level \in {LOG_EMERG, LOG_ALERT}

ReachedConsole ==
    /\ Val(called).level <= hstate.level
    /\ ~(/\ pc = "raised"
          /\ BitAnd(hstate.option, LOG_PERROR) # 0
          /\ Val(called).fails.perror)

====
